---------------------------- MODULE Spec2Model ----------------------------
(***************************************************************************)
(* Model of the password analyser of hipoloco/obligatorio_programacion:    *)
(*   src/modules/passutils.py    character classes, PasswordInfo           *)
(*   src/pypasstool/checkpass.py profile, combinations, brute-force time,  *)
(*                               security tier, suggestions, checkpass()   *)
(*   src/modules/utils.py        secs_to_time                              *)
(*                                                                         *)
(* Conventions.                                                            *)
(*  - A character is its Unicode code point (ord(c)); a password is a      *)
(*    sequence of code points.                                             *)
(*  - A Python float that is the quotient of two integers is kept exact,   *)
(*    as a record [num, den] with den > 0 (binary rounding of the          *)
(*    quotient is not modelled).                                           *)
(*  - A call's outcome is [kind |-> "return", ...] or                      *)
(*    [kind |-> "raise", exc |-> <exception class name>].                  *)
(*  - Message texts are transliterated to ASCII.                           *)
(***************************************************************************)
EXTENDS Integers, Sequences, FiniteSets, TLC

VARIABLES
    pc,                       \* position in checkpass(), or the function last run
    password_visible,         \* checkpass local
    password,                 \* checkpass local / the string handed to a function
    password_valid,           \* result of is_password_vaild(password)
    passinfo,                 \* the PasswordInfo object
    confirmation,             \* checkpass local
    num_passwords,            \* checkpass local
    pass_breaktime,           \* checkpass local / the seconds handed to a function
    breaktime_text,           \* checkpass local
    improvements_list,        \* checkpass local
    DEFAULT_DEVICE_HASHRATE,  \* configuration constant (utils.constants)
    PASSWORD_SECURITY_LIMITS, \* configuration constant (utils.constants)
    answer,                   \* the last line typed at the confirmation prompt
    analysis_runs,            \* history: completed runs of the analysis block
    calls                     \* history: calls made of the function under study

vars == <<pc, password_visible, password, password_valid, passinfo, confirmation,
          num_passwords, pass_breaktime, breaktime_text, improvements_list,
          DEFAULT_DEVICE_HASHRATE, PASSWORD_SECURITY_LIMITS, answer, analysis_runs,
          calls>>

\* Python's None, and True and False where a variable may also hold None.
None == "None"

True == "True"

False == "False"

(***************************************************************************)
(* Bounds of the model.                                                    *)
(***************************************************************************)
MaxLength == 2

MaxCalls == 2

MaxProfileLength == 3

MaxSuggestLength == 13

MaxHashrate == 2

MaxLimit == 4

MaxMult == 3

MaxDen == 2

(***************************************************************************)
(* passutils.py: the character classes, as sets of code points.            *)
(***************************************************************************)
HIGH_COMP_SYMB == {33, 35, 36, 37, 38, 42, 64, 94}

MED_COMP_SYMB == {40, 41, 45, 46, 95}

LOW_COMP_SYMB ==
    {34, 39, 43, 44, 47, 58, 59, 60, 61, 62, 63, 91, 92, 93, 96, 123, 124, 125, 126}

DIGITS == 48..57

LOWER == 97..122

UPPER == 65..90

VALID_PASS_CHARS_NoLow == MED_COMP_SYMB \cup HIGH_COMP_SYMB \cup DIGITS \cup LOWER \cup UPPER

VALID_PASS_CHARS ==
    LOW_COMP_SYMB \cup MED_COMP_SYMB \cup HIGH_COMP_SYMB \cup DIGITS \cup LOWER \cup UPPER

\* any(char in char_list for char in password)
RECURSIVE password_has_chartype(_, _)
password_has_chartype(pw, char_list) ==
    IF pw = << >> THEN FALSE
    ELSE IF Head(pw) \in char_list THEN TRUE
    ELSE password_has_chartype(Tail(pw), char_list)

\* all(char in VALID_PASS_CHARS for char in password)
RECURSIVE is_password_vaild(_)
is_password_vaild(pw) ==
    IF pw = << >> THEN TRUE
    ELSE IF Head(pw) \notin VALID_PASS_CHARS THEN FALSE
    ELSE is_password_vaild(Tail(pw))

\* PasswordInfo.__init__
PasswordInfo ==
    [length |-> 0, digits |-> FALSE, lower |-> FALSE, upper |-> FALSE,
     highcompsymb |-> FALSE, medcompsymb |-> FALSE, lowcompsymb |-> FALSE,
     security |-> 0]

(***************************************************************************)
(* checkpass.py: analyze_password_props.                                   *)
(***************************************************************************)
chartypes ==
    [digits |-> DIGITS, lower |-> LOWER, upper |-> UPPER,
     highcompsymb |-> HIGH_COMP_SYMB, medcompsymb |-> MED_COMP_SYMB,
     lowcompsymb |-> LOW_COMP_SYMB]

\* A variant that only ever raises a flag (never clears one left by an
\* earlier analysis of the same object).
analyze_password_props_Sticky(pw, info) ==
    [key \in DOMAIN info |->
        IF key = "length" THEN Len(pw)
        ELSE IF key \in DOMAIN chartypes
             THEN info[key] \/ password_has_chartype(pw, chartypes[key])
             ELSE info[key]]

\* The value of the passinfo object after analyze_password_props(pw, info).
analyze_password_props(pw, info) ==
    [key \in DOMAIN info |->
        IF key = "length" THEN Len(pw)
        ELSE IF key \in DOMAIN chartypes
             THEN password_has_chartype(pw, chartypes[key])
             ELSE info[key]]

(***************************************************************************)
(* Inputs of the string functions.                                         *)
(***************************************************************************)
\* One character of every class, a space and a non-ASCII letter.
InputChars == {55, 97, 90, 35, 45, 126, 32, 241}

Passwords == UNION {[1..n -> InputChars] : n \in 0..MaxLength}

Flags == {"digits", "lower", "upper", "highcompsymb", "medcompsymb", "lowcompsymb"}

\* The characters of a string, as a set.
Chars(pw) == {pw[i] : i \in 1..Len(pw)}

(***************************************************************************)
(* SpecValid: is_password_vaild applied to a string.                       *)
(***************************************************************************)
InitValid ==
    /\ pc = "start"
    /\ password \in Passwords
    /\ password_visible = None
    /\ password_valid = None
    /\ passinfo = PasswordInfo
    /\ confirmation = None
    /\ num_passwords = None
    /\ pass_breaktime = None
    /\ breaktime_text = None
    /\ improvements_list = None
    /\ DEFAULT_DEVICE_HASHRATE = None
    /\ PASSWORD_SECURITY_LIMITS = None
    /\ answer = None
    /\ analysis_runs = 0
    /\ calls = 0

CallIsPasswordValid ==
    /\ pc = "start"
    /\ password_valid' = is_password_vaild(password)
    /\ pc' = "is_password_vaild"
    /\ UNCHANGED <<password_visible, password, passinfo, confirmation, num_passwords,
                   pass_breaktime, breaktime_text, improvements_list,
                   DEFAULT_DEVICE_HASHRATE, PASSWORD_SECURITY_LIMITS, answer,
                   analysis_runs, calls>>

NextValid == CallIsPasswordValid

SpecValid == InitValid /\ [][NextValid]_vars

(***************************************************************************)
(* SpecProfile: analyze_password_props applied, repeatedly and to any      *)
(* strings, to one PasswordInfo object.                                    *)
(***************************************************************************)
InitProfile ==
    /\ pc = "start"
    /\ password = None
    /\ password_visible = None
    /\ password_valid = None
    /\ passinfo = PasswordInfo
    /\ confirmation = None
    /\ num_passwords = None
    /\ pass_breaktime = None
    /\ breaktime_text = None
    /\ improvements_list = None
    /\ DEFAULT_DEVICE_HASHRATE = None
    /\ PASSWORD_SECURITY_LIMITS = None
    /\ answer = None
    /\ analysis_runs = 0
    /\ calls = 0

CallAnalyzePasswordProps ==
    /\ calls < MaxCalls
    /\ \E pw \in Passwords :
        /\ password' = pw
        /\ passinfo' = analyze_password_props(pw, passinfo)
    /\ pc' = "analyze_password_props"
    /\ calls' = calls + 1
    /\ UNCHANGED <<password_visible, password_valid, confirmation, num_passwords,
                   pass_breaktime, breaktime_text, improvements_list,
                   DEFAULT_DEVICE_HASHRATE, PASSWORD_SECURITY_LIMITS, answer,
                   analysis_runs>>

NextProfile == CallAnalyzePasswordProps

SpecProfile == InitProfile /\ [][NextProfile]_vars

(***************************************************************************)
(* C7  is_password_vaild(s) is true iff every character of s belongs to    *)
(* the union of the six classes: true for a string made only of class      *)
(* characters (the empty string included), false as soon as one character  *)
(* (a space, say) lies outside the union.                                  *)
(***************************************************************************)
C7_ValidIffAllInUnion ==
    pc = "is_password_vaild" =>
        /\ password_valid \in BOOLEAN
        /\ password_valid =
             (Chars(password) \subseteq
                (DIGITS \cup LOWER \cup UPPER \cup HIGH_COMP_SYMB
                 \cup MED_COMP_SYMB \cup LOW_COMP_SYMB))
        /\ (password = << >> => password_valid = TRUE)
        /\ (32 \in Chars(password) => password_valid = FALSE)

\* A two-character string with a low-compatibility symbol was accepted.
C7_Witness ==
    /\ pc = "is_password_vaild"
    /\ password = <<97, 126>>
    /\ password_valid = TRUE

(***************************************************************************)
(* C8  analyze_password_props sets length to the character count and each  *)
(* of the six flags to "some character of the password is in the class";   *)
(* length and flags depend on the password alone, whatever the object held *)
(* before (a second analysis, of the same or of another password).         *)
(***************************************************************************)
C8_ProfileDependsOnPasswordOnly ==
    pc = "analyze_password_props" =>
        /\ passinfo.length = Len(password)
        /\ passinfo.digits = (Chars(password) \cap DIGITS # {})
        /\ passinfo.lower = (Chars(password) \cap LOWER # {})
        /\ passinfo.upper = (Chars(password) \cap UPPER # {})
        /\ passinfo.highcompsymb = (Chars(password) \cap HIGH_COMP_SYMB # {})
        /\ passinfo.medcompsymb = (Chars(password) \cap MED_COMP_SYMB # {})
        /\ passinfo.lowcompsymb = (Chars(password) \cap LOW_COMP_SYMB # {})
        /\ (password = << >> => \A f \in Flags : passinfo[f] = FALSE)

\* The object was analysed a second time and now holds the profile of "7".
C8_Witness ==
    /\ pc = "analyze_password_props"
    /\ calls = 2
    /\ password = <<55>>
    /\ passinfo.length = 1
    /\ passinfo.digits
    /\ ~passinfo.lower

(***************************************************************************)
(* checkpass.py: calc_password_combinations and get_bruteforce_time.       *)
(***************************************************************************)
\* len(s) of a set.
len(s) == Cardinality(s)

\* sum(list) of a list of integers.
RECURSIVE sum(_)
sum(list) == IF list = << >> THEN 0 ELSE Head(list) + sum(Tail(list))

\* base ** exp on Python integers, exp >= 0 (0 ** 0 is 1).
RECURSIVE pow(_, _)
pow(base, exp) == IF exp = 0 THEN 1 ELSE base * pow(base, exp - 1)

\* The charsets list with each symbol slot counting its own class only.
charsets_Independent(info) ==
    << IF info.digits THEN len(DIGITS) ELSE 0,
       IF info.lower THEN len(LOWER) ELSE 0,
       IF info.upper THEN len(UPPER) ELSE 0,
       IF info.highcompsymb THEN len(HIGH_COMP_SYMB) ELSE 0,
       IF info.medcompsymb THEN len(MED_COMP_SYMB) ELSE 0,
       IF info.lowcompsymb THEN len(LOW_COMP_SYMB) ELSE 0 >>

\* The charsets list built as an if/elif chain: only the first present
\* category is counted.
charsets_FirstOnly(info) ==
    IF info.digits THEN << len(DIGITS) >>
    ELSE IF info.lower THEN << len(LOWER) >>
    ELSE IF info.upper THEN << len(UPPER) >>
    ELSE IF info.highcompsymb THEN << len(HIGH_COMP_SYMB) >>
    ELSE IF info.medcompsymb THEN << len(HIGH_COMP_SYMB) + len(MED_COMP_SYMB) >>
    ELSE IF info.lowcompsymb
         THEN << len(HIGH_COMP_SYMB) + len(MED_COMP_SYMB) + len(LOW_COMP_SYMB) >>
    ELSE << >>

\* The list charsets of calc_password_combinations.
charsets(info) ==
    << IF info.digits THEN len(DIGITS) ELSE 0,
       IF info.lower THEN len(LOWER) ELSE 0,
       IF info.upper THEN len(UPPER) ELSE 0,
       IF info.highcompsymb THEN len(HIGH_COMP_SYMB) ELSE 0,
       IF info.medcompsymb THEN len(HIGH_COMP_SYMB) + len(MED_COMP_SYMB) ELSE 0,
       IF info.lowcompsymb
          THEN len(HIGH_COMP_SYMB) + len(MED_COMP_SYMB) + len(LOW_COMP_SYMB)
          ELSE 0 >>

\* An empty alphabet always gives 0 combinations.
calc_password_combinations_ZeroBase(info) ==
    IF sum(charsets(info)) = 0 THEN 0 ELSE pow(sum(charsets(info)), info.length)


calc_password_combinations(info) ==
    pow(sum(charsets(info)), info.length)

\* The exact quotient a / b, b # 0, with a positive denominator.
Quotient(a, b) == IF b > 0 THEN [num |-> a, den |-> b] ELSE [num |-> -a, den |-> -b]

\* The outcome of get_bruteforce_time: Python's / raises ZeroDivisionError on
\* a zero divisor and returns the quotient otherwise (also for a negative one).
get_bruteforce_time(pass_combinations, hashrate) ==
    IF hashrate = 0
    THEN [kind |-> "raise", exc |-> "ZeroDivisionError"]
    ELSE [kind |-> "return", value |-> Quotient(pass_combinations, hashrate)]

(***************************************************************************)
(* SpecCombinations: calc_password_combinations applied to any profile,    *)
(* then get_bruteforce_time to its result and any hash rate.               *)
(***************************************************************************)
\* Every PasswordInfo with a length in `lengths` and a tier in `tiers`.
Profiles(lengths, tiers) ==
    [length : lengths, digits : BOOLEAN, lower : BOOLEAN, upper : BOOLEAN,
     highcompsymb : BOOLEAN, medcompsymb : BOOLEAN, lowcompsymb : BOOLEAN,
     security : tiers]

HashRates == (-MaxHashrate)..MaxHashrate

InitCombinations ==
    /\ pc = "start"
    /\ passinfo \in Profiles(0..MaxProfileLength, {0})
    /\ DEFAULT_DEVICE_HASHRATE \in HashRates
    /\ password = None
    /\ password_visible = None
    /\ password_valid = None
    /\ confirmation = None
    /\ num_passwords = None
    /\ pass_breaktime = None
    /\ breaktime_text = None
    /\ improvements_list = None
    /\ PASSWORD_SECURITY_LIMITS = None
    /\ answer = None
    /\ analysis_runs = 0
    /\ calls = 0

CallCalcPasswordCombinations ==
    /\ pc = "start"
    /\ num_passwords' = calc_password_combinations(passinfo)
    /\ pc' = "calc_password_combinations"
    /\ UNCHANGED <<password_visible, password, password_valid, passinfo, confirmation,
                   pass_breaktime, breaktime_text, improvements_list,
                   DEFAULT_DEVICE_HASHRATE, PASSWORD_SECURITY_LIMITS, answer,
                   analysis_runs, calls>>

CallGetBruteforceTime ==
    /\ pc = "calc_password_combinations"
    /\ pass_breaktime' = get_bruteforce_time(num_passwords, DEFAULT_DEVICE_HASHRATE)
    /\ pc' = "get_bruteforce_time"
    /\ UNCHANGED <<password_visible, password, password_valid, passinfo, confirmation,
                   num_passwords, breaktime_text, improvements_list,
                   DEFAULT_DEVICE_HASHRATE, PASSWORD_SECURITY_LIMITS, answer,
                   analysis_runs, calls>>

NextCombinations == CallCalcPasswordCombinations \/ CallGetBruteforceTime

SpecCombinations == InitCombinations /\ [][NextCombinations]_vars

\* The profile's present categories.
Present(info) == {f \in Flags : info[f]}

(***************************************************************************)
(* C1  calc_password_combinations returns S ** length, S being the sum     *)
(* over the present flags of the slot weights digits 10, lowercase 26,     *)
(* uppercase 26, high symbols 8, medium slot 13, low slot 32; a            *)
(* lowercase-only profile of length 3 gives 26^3.                          *)
(***************************************************************************)
C1_CombinationsIsWeightSumToLength ==
    pc = "calc_password_combinations" =>
        LET S == (IF passinfo.digits THEN 10 ELSE 0)
                 + (IF passinfo.lower THEN 26 ELSE 0)
                 + (IF passinfo.upper THEN 26 ELSE 0)
                 + (IF passinfo.highcompsymb THEN 8 ELSE 0)
                 + (IF passinfo.medcompsymb THEN 13 ELSE 0)
                 + (IF passinfo.lowcompsymb THEN 32 ELSE 0)
        IN  /\ num_passwords = (IF passinfo.length = 0 THEN 1 ELSE S ^ passinfo.length)
            /\ (Present(passinfo) = {"lower"} /\ passinfo.length = 3
                   => num_passwords = 17576)

\* Medium and low symbols only, length 2: (13 + 32)^2.
C1_Witness ==
    /\ pc = "calc_password_combinations"
    /\ Present(passinfo) = {"medcompsymb", "lowcompsymb"}
    /\ passinfo.length = 2
    /\ num_passwords = 2025

(***************************************************************************)
(* C4  get_bruteforce_time with hashrate <= 0 ends in a ConfigurationError *)
(* reported to the caller (never a number); with hashrate > 0 it returns   *)
(* combinations / hashrate.                                                *)
(***************************************************************************)
C4_NonPositiveHashrateIsConfigurationError ==
    pc = "get_bruteforce_time" =>
        IF DEFAULT_DEVICE_HASHRATE <= 0
        THEN pass_breaktime = [kind |-> "raise", exc |-> "ConfigurationError"]
        ELSE /\ pass_breaktime.kind = "return"
             /\ pass_breaktime.value.den > 0
             /\ pass_breaktime.value.num * DEFAULT_DEVICE_HASHRATE
                  = num_passwords * pass_breaktime.value.den

(***************************************************************************)
(* C5  A profile of length 0 yields 1 combination, the profile with no     *)
(* category and length 0 included (0 ** 0); a profile with no category and *)
(* a length > 0 yields 0.                                                  *)
(***************************************************************************)
C5_ZeroLengthIsOneEmptyAlphabetIsZero ==
    pc = "calc_password_combinations" =>
        /\ (passinfo.length = 0 => num_passwords = 1)
        /\ (Present(passinfo) = {} /\ passinfo.length > 0 => num_passwords = 0)

\* No category, length 0: one combination.
C5_Witness ==
    /\ pc = "calc_password_combinations"
    /\ Present(passinfo) = {}
    /\ passinfo.length = 0
    /\ num_passwords = 1

(***************************************************************************)
(* C6  calc_password_combinations is monotone: with the same categories,   *)
(* at least one present, a longer profile has no fewer combinations; with  *)
(* the same length, a profile with more categories has no fewer.           *)
(***************************************************************************)
C6_CombinationsMonotone ==
    pc = "calc_password_combinations" =>
        \A other \in Profiles(0..MaxProfileLength, {0}) :
            /\ (/\ Present(other) = Present(passinfo)
                /\ Present(passinfo) # {}
                /\ passinfo.length <= other.length)
                  => num_passwords <= calc_password_combinations(other)
            /\ (/\ Present(passinfo) \subseteq Present(other)
                /\ passinfo.length = other.length)
                  => num_passwords <= calc_password_combinations(other)

\* Digits only, length 2: 100 combinations, fewer than with lowercase added.
C6_Witness ==
    /\ pc = "calc_password_combinations"
    /\ Present(passinfo) = {"digits"}
    /\ passinfo.length = 2
    /\ num_passwords = 100
    /\ num_passwords < calc_password_combinations([passinfo EXCEPT !.lower = TRUE])

(***************************************************************************)
(* checkpass.py: set_password_security.                                    *)
(***************************************************************************)
\* Comparisons of an exact quotient with an integer.
LessEq(t, k) == t.num <= k * t.den

Less(t, k) == t.num < k * t.den

\* The tier chain with the boundary value given to the upper tier.
set_password_security_UpperBoundary(bruteforce_time, info) ==
    LET limits == PASSWORD_SECURITY_LIMITS
        t == bruteforce_time
    IN  [info EXCEPT !.security =
            IF ~Less(t, 0) /\ Less(t, limits[1]) THEN 0
            ELSE IF ~Less(t, limits[1]) /\ Less(t, limits[2]) THEN 1
            ELSE IF ~Less(t, limits[2]) /\ Less(t, limits[3]) THEN 2
            ELSE IF ~Less(t, limits[3]) /\ Less(t, limits[4]) THEN 3
            ELSE 4]

\* The value of the passinfo object after set_password_security.
\* PASSWORD_SECURITY_LIMITS[i] of the code is limits[i + 1] here.
set_password_security(bruteforce_time, info) ==
    LET limits == PASSWORD_SECURITY_LIMITS
        t == bruteforce_time
    IN  [info EXCEPT !.security =
            IF ~Less(t, 0) /\ LessEq(t, limits[1]) THEN 0
            ELSE IF ~LessEq(t, limits[1]) /\ LessEq(t, limits[2]) THEN 1
            ELSE IF ~LessEq(t, limits[2]) /\ LessEq(t, limits[3]) THEN 2
            ELSE IF ~LessEq(t, limits[3]) /\ LessEq(t, limits[4]) THEN 3
            ELSE 4]

(***************************************************************************)
(* SpecSecurity: set_password_security applied to any time, under any      *)
(* strictly ascending limits, to an object holding any tier.               *)
(***************************************************************************)
\* The strictly ascending quadruples over 0..MaxLimit.
AscendingLimits ==
    {q \in [1..4 -> 0..MaxLimit] : \A i \in 1..3 : q[i] < q[i + 1]}

\* The times num/den around the limits, one negative and one beyond the last.
LimitTimes ==
    {[num |-> n, den |-> d] : n \in (-1)..(MaxDen * (MaxLimit + 1)), d \in 1..MaxDen}

InitSecurity ==
    /\ pc = "start"
    /\ PASSWORD_SECURITY_LIMITS \in AscendingLimits
    /\ pass_breaktime \in LimitTimes
    /\ passinfo \in {[PasswordInfo EXCEPT !.security = tier] : tier \in 0..4}
    /\ password = None
    /\ password_visible = None
    /\ password_valid = None
    /\ confirmation = None
    /\ num_passwords = None
    /\ breaktime_text = None
    /\ improvements_list = None
    /\ DEFAULT_DEVICE_HASHRATE = None
    /\ answer = None
    /\ analysis_runs = 0
    /\ calls = 0

CallSetPasswordSecurity ==
    /\ pc = "start"
    /\ passinfo' = set_password_security(pass_breaktime, passinfo)
    /\ pc' = "set_password_security"
    /\ UNCHANGED <<password_visible, password, password_valid, confirmation,
                   num_passwords, pass_breaktime, breaktime_text, improvements_list,
                   DEFAULT_DEVICE_HASHRATE, PASSWORD_SECURITY_LIMITS, answer,
                   analysis_runs, calls>>

NextSecurity == CallSetPasswordSecurity

SpecSecurity == InitSecurity /\ [][NextSecurity]_vars

(***************************************************************************)
(* C2  For strictly ascending limits T0<T1<T2<T3 and seconds >= 0,         *)
(* set_password_security assigns the tier in 0..4 that is the number of    *)
(* limits seconds strictly exceeds (a boundary value belongs to the lower  *)
(* tier).                                                                  *)
(***************************************************************************)
C2_TierIsNumberOfLimitsExceeded ==
    (pc = "set_password_security" /\ pass_breaktime.num >= 0) =>
        /\ passinfo.security \in 0..4
        /\ passinfo.security =
             Cardinality({i \in 1..4 :
                pass_breaktime.num > PASSWORD_SECURITY_LIMITS[i] * pass_breaktime.den})

\* seconds = 4/2 = T1 exactly: tier 1.
C2_Witness ==
    /\ pc = "set_password_security"
    /\ PASSWORD_SECURITY_LIMITS = <<0, 2, 3, 4>>
    /\ pass_breaktime = [num |-> 4, den |-> 2]
    /\ passinfo.security = 1

(***************************************************************************)
(* checkpass.py: password_improvements.  The message texts.                *)
(***************************************************************************)
MsgVerySecure == "Tu contrasena es muy segura. Buen trabajo!"

MsgTier0 ==
    "Tu contrasena es extremadamente debil a ataques de fuerza bruta. Considera cambiarla de inmediato."

MsgTier1 ==
    "Tu contrasena es muy debil a ataques de fuerza bruta. Se recomienda mejorarla para mayor seguridad."

MsgTier2 == "Tu contrasena es debil a ataques de fuerza bruta. deberia mejorarse."

MsgTier3 ==
    "Tu contrasena es fuerte a ataques de fuerza bruta, pero puedes hacerla mas segura."

MsgLength ==
    "Aumenta la longitud de tu contrasena. Se recomienda al menos 12 caracteres."

MsgDigits == "Incluye numeros en tu contrasena para mayor variedad."

MsgLower == "Incluye letras minusculas en tu contrasena."

MsgUpper == "Incluye letras mayusculas en tu contrasena."

MsgSymbols == "Agrega simbolos (como @, #, $, etc.) para aumentar la complejidad."

\* The symbol suggestion made when any one symbol class is missing.
password_improvements_AnySymbolMissing(info) ==
    IF info.security = 4 THEN <<MsgVerySecure>>
    ELSE
        LET l1 == IF info.security = 0 THEN <<MsgTier0>>
                  ELSE IF info.security = 1 THEN <<MsgTier1>>
                  ELSE IF info.security = 2 THEN <<MsgTier2>>
                  ELSE IF info.security = 3 THEN <<MsgTier3>>
                  ELSE << >>
            l2 == IF info.length < 12 THEN Append(l1, MsgLength) ELSE l1
            l3 == IF ~info.digits THEN Append(l2, MsgDigits) ELSE l2
            l4 == IF ~info.lower THEN Append(l3, MsgLower) ELSE l3
            l5 == IF ~info.upper THEN Append(l4, MsgUpper) ELSE l4
        IN  IF ~(info.highcompsymb /\ info.medcompsymb /\ info.lowcompsymb)
            THEN Append(l5, MsgSymbols) ELSE l5

\* improvements_list as password_improvements returns it.
password_improvements(info) ==
    IF info.security = 4 THEN <<MsgVerySecure>>
    ELSE
        LET l1 == IF info.security = 0 THEN <<MsgTier0>>
                  ELSE IF info.security = 1 THEN <<MsgTier1>>
                  ELSE IF info.security = 2 THEN <<MsgTier2>>
                  ELSE IF info.security = 3 THEN <<MsgTier3>>
                  ELSE << >>
            l2 == IF info.length < 12 THEN Append(l1, MsgLength) ELSE l1
            l3 == IF ~info.digits THEN Append(l2, MsgDigits) ELSE l2
            l4 == IF ~info.lower THEN Append(l3, MsgLower) ELSE l3
            l5 == IF ~info.upper THEN Append(l4, MsgUpper) ELSE l4
        IN  IF ~(info.highcompsymb \/ info.medcompsymb \/ info.lowcompsymb)
            THEN Append(l5, MsgSymbols) ELSE l5

(***************************************************************************)
(* SpecImprovements: password_improvements applied to any profile of       *)
(* length 0..MaxSuggestLength and tier 0..4.                               *)
(***************************************************************************)
InitImprovements ==
    /\ pc = "start"
    /\ passinfo \in Profiles(0..MaxSuggestLength, 0..4)
    /\ password = None
    /\ password_visible = None
    /\ password_valid = None
    /\ confirmation = None
    /\ num_passwords = None
    /\ pass_breaktime = None
    /\ breaktime_text = None
    /\ improvements_list = None
    /\ DEFAULT_DEVICE_HASHRATE = None
    /\ PASSWORD_SECURITY_LIMITS = None
    /\ answer = None
    /\ analysis_runs = 0
    /\ calls = 0

CallPasswordImprovements ==
    /\ pc = "start"
    /\ improvements_list' = password_improvements(passinfo)
    /\ pc' = "password_improvements"
    /\ UNCHANGED <<password_visible, password, password_valid, passinfo, confirmation,
                   num_passwords, pass_breaktime, breaktime_text,
                   DEFAULT_DEVICE_HASHRATE, PASSWORD_SECURITY_LIMITS, answer,
                   analysis_runs, calls>>

NextImprovements == CallPasswordImprovements

SpecImprovements == InitImprovements /\ [][NextImprovements]_vars

(***************************************************************************)
(* C3  password_improvements returns, for tier 4, the single "already      *)
(* strong" message; for a tier 0..3, that tier's message followed by those *)
(* of [length < 12, digits missing, lowercase missing, uppercase missing,  *)
(* all three symbol classes missing] whose condition holds, in this order, *)
(* each once and nothing else.  Tier 2, length 6, digits only gives        *)
(* [tier 2, length, lowercase, uppercase, symbols].                        *)
(***************************************************************************)
C3_ImprovementsOrderedRuleSet ==
    pc = "password_improvements" =>
        LET tierMsg == <<MsgTier0, MsgTier1, MsgTier2, MsgTier3>>
            checks ==
                << [msg |-> MsgLength, holds |-> passinfo.length < 12],
                   [msg |-> MsgDigits, holds |-> ~passinfo.digits],
                   [msg |-> MsgLower, holds |-> ~passinfo.lower],
                   [msg |-> MsgUpper, holds |-> ~passinfo.upper],
                   [msg |-> MsgSymbols,
                    holds |-> Present(passinfo) \cap
                                {"highcompsymb", "medcompsymb", "lowcompsymb"} = {}] >>
            Holds(c) == c.holds
            chosen == SelectSeq(checks, Holds)
        IN  /\ passinfo.security = 4 => improvements_list = <<MsgVerySecure>>
            /\ passinfo.security \in 0..3 =>
                 improvements_list =
                    <<tierMsg[passinfo.security + 1]>>
                    \o [i \in 1..Len(chosen) |-> chosen[i].msg]
            /\ (/\ passinfo.security = 2
                /\ passinfo.length = 6
                /\ Present(passinfo) = {"digits"})
                 => improvements_list =
                      <<MsgTier2, MsgLength, MsgLower, MsgUpper, MsgSymbols>>

\* The example of the claim: tier 2, length 6, digits only.
C3_Witness ==
    /\ pc = "password_improvements"
    /\ passinfo.security = 2
    /\ passinfo.length = 6
    /\ Present(passinfo) = {"digits"}
    /\ improvements_list = <<MsgTier2, MsgLength, MsgLower, MsgUpper, MsgSymbols>>

(***************************************************************************)
(* utils.py: secs_to_time.  The text f"{duration} {unit}" is the pair      *)
(* <<duration, unit>>; "Instantaneo" is the one-element <<"Instantaneo">>. *)
(***************************************************************************)
SECOND == 1

MINUTE == 60 * SECOND

HOUR == 60 * MINUTE

DAY == 24 * HOUR

WEEK == 7 * DAY

MONTH == 30 * DAY

YEAR == 365 * DAY

\* int(seconds // unit) for seconds >= 0: the floor of the exact quotient.
FloorDiv(seconds, unit) == seconds.num \div (seconds.den * unit)

\* The weeks branch closed at one week instead of one month.
secs_to_time_WeekBound(seconds) ==
    IF Less(seconds, SECOND) THEN <<"Instantaneo">>
    ELSE IF Less(seconds, MINUTE) THEN
        LET duration == FloorDiv(seconds, SECOND)
        IN  <<duration, IF duration = 1 THEN "segundo" ELSE "segundos">>
    ELSE IF Less(seconds, HOUR) THEN
        LET duration == FloorDiv(seconds, MINUTE)
        IN  <<duration, IF duration = 1 THEN "minuto" ELSE "minutos">>
    ELSE IF Less(seconds, DAY) THEN
        LET duration == FloorDiv(seconds, HOUR)
        IN  <<duration, IF duration = 1 THEN "hora" ELSE "horas">>
    ELSE IF Less(seconds, WEEK) THEN
        LET duration == FloorDiv(seconds, WEEK)
        IN  <<duration, IF duration = 1 THEN "semana" ELSE "semanas">>
    ELSE IF Less(seconds, YEAR) THEN
        LET duration == FloorDiv(seconds, MONTH)
        IN  <<duration, IF duration = 1 THEN "mes" ELSE "meses">>
    ELSE
        LET duration == FloorDiv(seconds, YEAR)
        IN  <<duration, IF duration = 1 THEN "anio" ELSE "anios">>

secs_to_time(seconds) ==
    IF Less(seconds, SECOND) THEN <<"Instantaneo">>
    ELSE IF Less(seconds, MINUTE) THEN
        LET duration == FloorDiv(seconds, SECOND)
        IN  <<duration, IF duration = 1 THEN "segundo" ELSE "segundos">>
    ELSE IF Less(seconds, HOUR) THEN
        LET duration == FloorDiv(seconds, MINUTE)
        IN  <<duration, IF duration = 1 THEN "minuto" ELSE "minutos">>
    ELSE IF Less(seconds, DAY) THEN
        LET duration == FloorDiv(seconds, HOUR)
        IN  <<duration, IF duration = 1 THEN "hora" ELSE "horas">>
    ELSE IF Less(seconds, MONTH) THEN
        LET duration == FloorDiv(seconds, WEEK)
        IN  <<duration, IF duration = 1 THEN "semana" ELSE "semanas">>
    ELSE IF Less(seconds, YEAR) THEN
        LET duration == FloorDiv(seconds, MONTH)
        IN  <<duration, IF duration = 1 THEN "mes" ELSE "meses">>
    ELSE
        LET duration == FloorDiv(seconds, YEAR)
        IN  <<duration, IF duration = 1 THEN "anio" ELSE "anios">>

(***************************************************************************)
(* SpecTime: secs_to_time applied to durations at and around the multiples *)
(* of every unit, whole and fractional.                                    *)
(***************************************************************************)
TimeSamples ==
    {[num |-> m * u * d + o, den |-> d] :
        m \in 0..MaxMult,
        u \in {SECOND, MINUTE, HOUR, DAY, WEEK, MONTH, YEAR},
        o \in {-1, 0, 1},
        d \in 1..MaxDen}

InitTime ==
    /\ pc = "start"
    /\ pass_breaktime \in TimeSamples
    /\ passinfo = PasswordInfo
    /\ password = None
    /\ password_visible = None
    /\ password_valid = None
    /\ confirmation = None
    /\ num_passwords = None
    /\ breaktime_text = None
    /\ improvements_list = None
    /\ DEFAULT_DEVICE_HASHRATE = None
    /\ PASSWORD_SECURITY_LIMITS = None
    /\ answer = None
    /\ analysis_runs = 0
    /\ calls = 0

CallSecsToTime ==
    /\ pc = "start"
    /\ breaktime_text' = secs_to_time(pass_breaktime)
    /\ pc' = "secs_to_time"
    /\ UNCHANGED <<password_visible, password, password_valid, passinfo, confirmation,
                   num_passwords, pass_breaktime, improvements_list,
                   DEFAULT_DEVICE_HASHRATE, PASSWORD_SECURITY_LIMITS, answer,
                   analysis_runs, calls>>

NextTime == CallSecsToTime

SpecTime == InitTime /\ [][NextTime]_vars

(***************************************************************************)
(* C9  secs_to_time picks the unit by the first bound seconds is strictly  *)
(* below: < 1 "instant", < 60 seconds, < 3600 minutes, < 86400 hours,      *)
(* < 30 days weeks, < 365 days months, otherwise years; the unit word is   *)
(* singular exactly when the printed N is 1.                               *)
(***************************************************************************)
C9_UnitByFirstBoundAndPlural ==
    pc = "secs_to_time" =>
        LET s == pass_breaktime
            bounds == <<1, 60, 3600, 86400, 30 * 86400, 365 * 86400>>
            singular == <<"segundo", "minuto", "hora", "semana", "mes", "anio">>
            plural == <<"segundos", "minutos", "horas", "semanas", "meses", "anios">>
            \* the number of bounds seconds is not strictly below
            k == Cardinality({i \in 1..6 : s.num >= bounds[i] * s.den})
        IN  IF k = 0
            THEN breaktime_text = <<"Instantaneo">>
            ELSE /\ Len(breaktime_text) = 2
                 /\ breaktime_text[1] \in Nat
                 /\ breaktime_text[2] =
                      (IF breaktime_text[1] = 1 THEN singular[k] ELSE plural[k])

\* Exactly seven days: the weeks branch, singular.
C9_Witness ==
    /\ pc = "secs_to_time"
    /\ pass_breaktime = [num |-> 7 * 86400, den |-> 1]
    /\ breaktime_text = <<1, "semana">>

(***************************************************************************)
(* checkpass.py: checkpass() and its prompts.                              *)
(***************************************************************************)
\* The lines a user may type at a [S/N] prompt.
Answers == {"s", "S", "n", "N", "x", ""}

\* str.lower() on the lines of Answers.
lower(text) == IF text = "S" THEN "s" ELSE IF text = "N" THEN "n" ELSE text

\* show_password(), as a function of the line typed.
show_password(typed) ==
    IF lower(typed) \notin {"s", "n"} THEN None
    ELSE IF lower(typed) = "s" THEN True
    ELSE False

\* A confirmation that takes every answer but "n" for a yes.
confirm_bruteforce_analysis_DefaultYes(typed) ==
    IF lower(typed) = "n" THEN False ELSE True

\* confirm_bruteforce_analysis(), as a function of the line typed.
confirm_bruteforce_analysis(typed) ==
    IF lower(typed) \notin {"s", "n"} THEN None
    ELSE IF lower(typed) = "n" THEN False
    ELSE True

\* passutils.input_password turns down (returns None, so that the prompt is
\* shown again) an empty line and a line with a character outside the classes.
input_password_IsNone(typed) == typed = << >> \/ ~is_password_vaild(typed)

\* passutils.input_password: the password typed, or None.
input_password(typed) == IF input_password_IsNone(typed) THEN None ELSE typed

\* utils.format_time: the duration text, by the rules of secs_to_time.
format_time(seconds) == secs_to_time(seconds)

\* The values utils.constants may give DEFAULT_DEVICE_HASHRATE.
DeviceHashRates == 1..MaxHashrate

\* The values utils.constants may give PASSWORD_SECURITY_LIMITS.
SecurityLimits == {<<1, 3600, 86400, 31536000>>, <<1, 10, 100, 1000>>}

\* The state on entry to checkpass().
Init ==
    /\ pc = "show_password"
    /\ DEFAULT_DEVICE_HASHRATE \in DeviceHashRates
    /\ PASSWORD_SECURITY_LIMITS \in SecurityLimits
    /\ password_visible = None
    /\ password = None
    /\ password_valid = None
    /\ passinfo = None
    /\ confirmation = None
    /\ num_passwords = None
    /\ pass_breaktime = None
    /\ breaktime_text = None
    /\ improvements_list = None
    /\ answer = None
    /\ analysis_runs = 0
    /\ calls = 0

\* Lines 213-219: one pass of the first while loop.
ShowPassword ==
    /\ pc = "show_password"
    /\ \E typed \in Answers :
        /\ password_visible' = show_password(typed)
        /\ pc' = IF show_password(typed) = None THEN "show_password" ELSE "input_password"
    /\ UNCHANGED <<password, password_valid, passinfo, confirmation, num_passwords,
                   pass_breaktime, breaktime_text, improvements_list,
                   DEFAULT_DEVICE_HASHRATE, PASSWORD_SECURITY_LIMITS, answer,
                   analysis_runs, calls>>

\* Lines 221-227: one pass of the second while loop and, once a password is
\* returned, the construction and analysis of passinfo.
InputPassword ==
    /\ pc = "input_password"
    /\ \E typed \in Passwords :
        /\ password' = input_password(typed)
        /\ IF input_password_IsNone(typed)
           THEN /\ pc' = "input_password"
                /\ passinfo' = passinfo
           ELSE /\ pc' = "confirm"
                /\ passinfo' = analyze_password_props(input_password(typed), PasswordInfo)
    /\ UNCHANGED <<password_visible, password_valid, confirmation, num_passwords,
                   pass_breaktime, breaktime_text, improvements_list,
                   DEFAULT_DEVICE_HASHRATE, PASSWORD_SECURITY_LIMITS, answer,
                   analysis_runs, calls>>

\* Lines 229-234: one pass of the third while loop, and the test that follows it.
\* After "n" the function waits for ENTER, where Ctrl+C stops the task instead.
ConfirmBruteforceAnalysis ==
    /\ pc = "confirm"
    /\ calls < MaxCalls
    /\ \E typed \in Answers :
        /\ answer' = typed
        /\ confirmation' = confirm_bruteforce_analysis(typed)
        /\ pc' \in IF confirm_bruteforce_analysis(typed) = None THEN {"confirm"}
                    ELSE IF confirm_bruteforce_analysis(typed) = True THEN {"analysis"}
                    ELSE {"done", "stopped"}
    /\ calls' = calls + 1
    /\ UNCHANGED <<password_visible, password, password_valid, passinfo, num_passwords,
                   pass_breaktime, breaktime_text, improvements_list,
                   DEFAULT_DEVICE_HASHRATE, PASSWORD_SECURITY_LIMITS, analysis_runs>>

\* Lines 235-243: the brute-force analysis and its summary.  An exception of
\* get_bruteforce_time is not caught by checkpass (only KeyboardInterrupt is).
BruteforceAnalysis ==
    /\ pc = "analysis"
    /\ LET num == calc_password_combinations(passinfo)
           outcome == get_bruteforce_time(num, DEFAULT_DEVICE_HASHRATE)
       IN  /\ num_passwords' = num
           /\ IF outcome.kind = "raise"
              THEN /\ pc' = "raised"
                   /\ UNCHANGED <<pass_breaktime, breaktime_text, passinfo,
                                  improvements_list, analysis_runs>>
              ELSE /\ pass_breaktime' = outcome.value
                   /\ breaktime_text' = format_time(outcome.value)
                   /\ passinfo' = set_password_security(outcome.value, passinfo)
                   /\ improvements_list' = password_improvements(passinfo')
                   /\ analysis_runs' = analysis_runs + 1
                   /\ pc' = "summary"
    /\ UNCHANGED <<password_visible, password, password_valid, confirmation,
                   DEFAULT_DEVICE_HASHRATE, PASSWORD_SECURITY_LIMITS, answer, calls>>

\* Lines 244-247: ENTER returns to the menu; Ctrl+C leaves the program.
LeaveSummary ==
    /\ pc = "summary"
    /\ pc' \in {"done", "exited"}
    /\ UNCHANGED <<password_visible, password, password_valid, passinfo, confirmation,
                   num_passwords, pass_breaktime, breaktime_text, improvements_list,
                   DEFAULT_DEVICE_HASHRATE, PASSWORD_SECURITY_LIMITS, answer,
                   analysis_runs, calls>>

\* Lines 249-250: Ctrl+C at a prompt of the three loops ends the task.
KeyboardInterrupt ==
    /\ pc \in {"show_password", "input_password", "confirm"}
    /\ pc' = "stopped"
    /\ UNCHANGED <<password_visible, password, password_valid, passinfo, confirmation,
                   num_passwords, pass_breaktime, breaktime_text, improvements_list,
                   DEFAULT_DEVICE_HASHRATE, PASSWORD_SECURITY_LIMITS, answer,
                   analysis_runs, calls>>

Next ==
    \/ ShowPassword
    \/ InputPassword
    \/ ConfirmBruteforceAnalysis
    \/ BruteforceAnalysis
    \/ LeaveSummary
    \/ KeyboardInterrupt

Spec == Init /\ [][Next]_vars

\* passinfo holds the profile built from the password that was entered.
ProfileBuilt ==
    /\ pc \notin {"show_password", "input_password"}
    /\ password \in Passwords
    /\ \A key \in Flags \cup {"length"} :
          passinfo[key] = analyze_password_props(password, PasswordInfo)[key]

C11_PrintedQuantityAtLeastOne ==
    (pc = "secs_to_time" /\ ~Less(pass_breaktime, 1)) =>
        /\ Len(breaktime_text) = 2
        /\ breaktime_text[1] >= 1

=============================================================================
